---- MODULE Spec2Model ----
(***************************************************************************)
(* A model of eval_poisons_scratch.py: the run-state aggregator of the     *)
(* __main__ block, the AverageMeter accumulator, the top-k accuracy        *)
(* evaluator and the epoch loop of train_network_with_poison.              *)
(*                                                                         *)
(* Python values whose type decides a comparison keep their type: a dict   *)
(* key or a list element is <<"int", n>> or <<"str", n>> (the decimal text *)
(* of n), and the two are different values, as 4000 and "4000" are.        *)
(* A Python dict is a sequence of <<key, value>> pairs with distinct keys, *)
(* in insertion order.  A JSON object, as text, is a sequence of           *)
(* <<n, value>> pairs whose keys are all text and may repeat.              *)
(***************************************************************************)
EXTENDS Integers, Sequences, FiniteSets, TLC

\* ------------------------------------------------------------------ bounds
NumTargets == 2
NumItes == 2
MaxSeed == 1
MaxRuns == 2
MaxVal == 2
MaxWeight == 2
MaxUpdates == 3
NumClasses == 6
MaxBatch == 2

Min(a, b) == IF a < b THEN a ELSE b

\* ------------------------------------------------------- typed Python keys
IntKey(n) == <<"int", n>>
StrKey(n) == <<"str", n>>

\* str(n) of an int, as a dict key
str(n) == StrKey(n)

\* ------------------------------------------------------------ Python dict
EmptyDict == <<>>

DictKeys(d) == {d[i][1] : i \in 1..Len(d)}

\* `k in d`: Python compares the key by value and type
DictHas(d, k) == \E i \in 1..Len(d) : d[i][1] = k

DictGet(d, k) == d[CHOOSE i \in 1..Len(d) : d[i][1] = k][2]

\* d[k] = v: overwrite in place, or append a new key
DictSet(d, k, v) ==
    IF DictHas(d, k)
    THEN [i \in 1..Len(d) |-> IF d[i][1] = k THEN <<k, v>> ELSE d[i]]
    ELSE Append(d, <<k, v>>)

\* ------------------------------------------------------------------- JSON
\* json.dump writes every pair of the dict in order; an int key is written as
\* its decimal text, so 0 and "0" come out as the same text, written twice.
KeyText(k) == k[2]

\* a dict of scalars (a per-target mapping: iteration -> result blob)
DumpInner(d) == [i \in 1..Len(d) |-> <<KeyText(d[i][1]), d[i][2]>>]

\* a dict of dicts (the 'targets' mapping)
DumpOuter(d) == [i \in 1..Len(d) |-> <<KeyText(d[i][1]), DumpInner(d[i][2])>>]

\* json.load builds the dict pair by pair: every key is a str, and a repeated
\* key keeps its first position and its last value.
RECURSIVE LoadInner(_)
LoadInner(txt) ==
    IF txt = <<>> THEN EmptyDict
    ELSE LET n == Len(txt)
         IN  DictSet(LoadInner(SubSeq(txt, 1, n - 1)), StrKey(txt[n][1]), txt[n][2])

RECURSIVE LoadOuter(_)
LoadOuter(txt) ==
    IF txt = <<>> THEN EmptyDict
    ELSE LET n == Len(txt)
         IN  DictSet(LoadOuter(SubSeq(txt, 1, n - 1)), StrKey(txt[n][1]),
                     LoadInner(txt[n][2]))

\* ------------------------------------------------ configuration constants
\* ites = [1, 51, 101, 201, 401, 801, 1601, 2801, 4000]
all_ites == <<1, 51, 101, 201, 401, 801, 1601, 2801, 4000>>

\* the model sweeps the last NumItes entries of the list
ites == SubSeq(all_ites, Len(all_ites) - NumItes + 1, Len(all_ites))

IteSet == {ites[i] : i \in 1..Len(ites)}

TargetIds == 0..(NumTargets - 1)

\* Nothing seeds the random generators, so what the retrainings of one process
\* report depends on the state its generators start in; a result blob is
\* modelled by that state. The states are numbered in the order they first
\* occur: the n-th process starts in one of the first n.
Seeds(n) == 0..Min(n - 1, MaxSeed)

\* the value of a Python name that is not bound yet (its use raises NameError)
Unbound == -1

\* the all_res of an invocation before any file is read
NoRecord == [has_targets |-> FALSE, targets |-> EmptyDict,
             has_idx |-> FALSE, poison_idx_list |-> Unbound]

VARIABLES
    \* --- the file system (environment)
    files,          \* files[t]: <<>> when the results file of t is absent, else <<text>>
    ckpt,           \* ckpt[t]: the iterations whose poison checkpoint file exists
    \* --- command line
    args,           \* target_index_start / _end / _step
    \* --- the running process
    pc,             \* "idle", "for_target", "sweep", "persist", "done", "crashed"
    cursor,         \* the next value of range(start, end, step)
    target_idx,
    all_res,
    res,
    no_save,
    pos,            \* index into ites of the iteration the inner loop is at
    base_idx_list,  \* the checkpoint the index list came from; Unbound before
    \* --- history
    run,            \* number of invocations started
    files_before,   \* files when the current invocation started
    prev_done,      \* the previous invocation completed normally
    changed,        \* a checkpoint file changed since the current invocation started
    same_inputs,    \* no checkpoint file changed between the previous invocation's
                    \* start and this one's
    seed,           \* the generator state of the current process
    computed,       \* <<t, ite>> retrained in the current invocation
    aborted,        \* targets abandoned in the current invocation
    visited         \* targets whose sweep started in the current invocation

VARIABLES
    \* --- one AverageMeter object
    m_val, m_avg, m_sum, m_count,   \* its fields; avg is a rational <<num, den>>
    m_status,                       \* "ok", or "raised" when the last call raised
    m_read,                         \* what the last operation, if a read of .avg, gave
    m_hist                          \* the update(val, n) calls since the last reset

meterVars == <<m_val, m_avg, m_sum, m_count, m_status, m_read, m_hist>>

VARIABLES
    \* --- one call of accuracy(output, target, topk)
    a_output,       \* a_output[i][c]: the score of class c for example i
    a_target,       \* a_target[i]: the label of example i
    a_topk,         \* the tuple of k values
    a_pred,         \* pred after line 50: a_pred[j][i], j-th best class of example i
    a_res,          \* the returned list, one rational per k
    a_pc            \* "call", "ranked", "returned"

accVars == <<a_output, a_target, a_topk, a_pred, a_res, a_pc>>

VARIABLES
    \* --- one call of train_network_with_poison
    t_args,         \* retrain_epochs, lr_decay_epoch, retrain_lr, batches
    t_pc,           \* "call", "epoch_head", "batches", "score", "validate",
                    \* "return", "done", "raised"
    t_next,         \* the next value of range(args.retrain_epochs)
    epoch,          \* the loop variable; Unbound before the first iteration
    batch_no,       \* batches of the current epoch already trained on (ite)
    lr,             \* param_group['lr'], a rational <<num, den>>
    scored_at,      \* the epochs in which the target and poisons were scored
    validated,      \* number of validation passes
    output_keys     \* the keys of the returned record

trainVars == <<t_args, t_pc, t_next, epoch, batch_no, lr, scored_at, validated, output_keys>>

aggVars == <<files, ckpt, args, pc, cursor, target_idx, all_res, res, no_save, pos,
             base_idx_list, run, files_before, prev_done, changed, same_inputs, seed,
             computed, aborted, visited>>

vars == <<aggVars, meterVars, accVars, trainVars>>

notAgg == <<meterVars, accVars, trainVars>>
notMeter == <<aggVars, accVars, trainVars>>
notAcc == <<aggVars, meterVars, trainVars>>
notTrain == <<aggVars, meterVars, accVars>>

\* ----------------------------------------------------------- file access
\* read_json: the parsed file, or {} when there is none
read_json(f) ==
    IF f = <<>> THEN NoRecord
    ELSE [has_targets |-> TRUE, targets |-> LoadOuter(f[1].targets),
          has_idx |-> TRUE, poison_idx_list |-> f[1].poison_idx_list]

\* json.dump(all_res, f)
json_dump(r) == <<[targets |-> DumpOuter(r.targets),
                   poison_idx_list |-> r.poison_idx_list]>>

\* lines 307-314: load the record and make sure it has a 'targets' entry
LoadRecord(f, t) ==
    LET r == read_json(f)
    IN  IF r.has_targets THEN r
        ELSE [r EXCEPT !.has_targets = TRUE,
                       !.targets = <<<<str(t), EmptyDict>>>>]

\* line 321: `ite in all_res['targets'][str(target_idx)]`, ite an int
AlreadyPresent(r, t, ite) == DictHas(DictGet(r.targets, str(t)), IntKey(ite))

\* (mutant) the results are saved whether or not the sweep was abandoned
ShouldPersistAlways(ns) == TRUE

\* line 351: the sweep's results are saved only when no_save is still True
ShouldPersist(ns) == ns

\* lines 352-353: all_res['targets'][target_idx] = res, target_idx an int
MergeResults(r, t, rs, idx) ==
    [r EXCEPT !.targets = DictSet(r.targets, IntKey(t), rs),
              !.has_idx = TRUE,
              !.poison_idx_list = idx]

\* (mutant) the break leaves the target loop as well
AfterMissingExit == "done"

\* lines 326-329: where the target loop goes on after a missing checkpoint
AfterMissing == "persist"

\* ------------------------------------------------------------ AverageMeter
RECURSIVE GCD(_, _)
GCD(a, b) == IF b = 0 THEN a ELSE GCD(b, a % b)

\* the value n/d of a true division, d > 0, in lowest terms
Rat(n, d) == LET g == GCD(n, d) IN <<n \div g, d \div g>>

Zero == <<0, 1>>

\* (mutant) the weight is forgotten
UpdateSumUnweighted(s, val, n) == s + val

\* line 38: self.sum += val * n
UpdateSum(s, val, n) == s + val * n

\* (mutant) reset leaves the average as it was
ResetAvgKeep(a) == a

\* line 32: self.avg = 0
ResetAvg(a) == Zero

NoRead == [kind |-> "none", value |-> Zero]

\* lines 27-34: the object after __init__, which calls reset()
MeterFresh ==
    /\ m_val = 0
    /\ m_avg = Zero
    /\ m_sum = 0
    /\ m_count = 0
    /\ m_status = "ok"
    /\ m_read = NoRead
    /\ m_hist = <<>>

\* lines 30-34: reset()
MeterReset ==
    /\ m_val' = 0
    /\ m_avg' = ResetAvg(m_avg)
    /\ m_sum' = 0
    /\ m_count' = 0
    /\ m_status' = "ok"
    /\ m_read' = NoRead
    /\ m_hist' = <<>>
    /\ UNCHANGED notMeter

\* lines 36-40: update(val, n); line 40 raises ZeroDivisionError when the count
\* is zero, after lines 37-39 have assigned
MeterUpdate ==
    /\ Len(m_hist) < MaxUpdates
    /\ \E val \in 0..MaxVal, n \in 0..MaxWeight :
         /\ m_val' = val
         /\ m_sum' = UpdateSum(m_sum, val, n)
         /\ m_count' = m_count + n
         /\ IF m_count' = 0
            THEN m_status' = "raised" /\ m_avg' = m_avg
            ELSE m_status' = "ok" /\ m_avg' = Rat(m_sum', m_count')
         /\ m_hist' = Append(m_hist, <<val, n>>)
    /\ m_read' = NoRead
    /\ UNCHANGED notMeter

\* a caller reads the attribute .avg (lines 111-114, 149, 151, 156)
MeterRead ==
    /\ m_read' = [kind |-> "value", value |-> m_avg]
    /\ m_status' = "ok"
    /\ UNCHANGED <<m_val, m_avg, m_sum, m_count, m_hist>>
    /\ UNCHANGED notMeter

MeterNext == MeterReset \/ MeterUpdate \/ MeterRead

\* ----------------------------------------------------------------- accuracy
Classes == 0..(NumClasses - 1)

\* 100.0 at line 56
Percent == 100

Max(S) == CHOOSE x \in S : \A y \in S : y <= x

\* Score rows: a ramp over the classes, rotated by s and cut off at m. m = 0 is
\* a row of equal scores, m = 1 a row with one low class and the rest tied,
\* m = NumClasses - 1 a row of distinct scores.
ScoreRow(s, m) == [c \in Classes |-> Min((c + s) % NumClasses, m)]

ScoreRows == {ScoreRow(s, m) : s \in {0, 1}, m \in {0, 1, NumClasses - 1}}

\* the topk arguments: the default, used at lines 103 and 143, and (1, 5)
TopKs == {<<1>>, <<1, 5>>}

TiePolicies == {"low", "high"}

\* class c comes before class d in a descending sort of row; equal scores are
\* ordered by the tie policy, which torch.topk leaves to the implementation
Before(row, tie, c, d) ==
    \/ row[c] > row[d]
    \/ row[c] = row[d] /\ c # d /\ (IF tie = "low" THEN c < d ELSE c > d)

\* line 49: the k largest entries of row, largest first
RECURSIVE TopKOf(_, _, _, _)
TopKOf(row, tie, k, S) ==
    IF k = 0 THEN <<>>
    ELSE LET best == CHOOSE c \in S : \A d \in S \ {c} : Before(row, tie, c, d)
         IN  <<best>> \o TopKOf(row, tie, k - 1, S \ {best})

\* line 50: pred.t()
Transpose(m, rows, cols) == [j \in 1..cols |-> [i \in 1..rows |-> m[i][j]]]

\* (mutant) only row k of correct is looked at
RowsOnly(k) == {k}

\* line 55: correct[:k]
RowsUpTo(k) == 1..k

\* line 51: pred.eq(target.view(1, -1).expand_as(pred))
Correct(pred, target) ==
    [j \in DOMAIN pred |-> [i \in DOMAIN target |-> pred[j][i] = target[i]]]

\* lines 55-56: correct[:k].view(-1).float().sum() times 100.0 / batch_size
PrecisionAt(correct, k, batch_size) ==
    LET correct_k == Cardinality({<<j, i>> \in RowsUpTo(k) \X (1..batch_size) :
                                    correct[j][i]})
        factor == Rat(Percent, batch_size)
    IN  Rat(correct_k * factor[1], factor[2])

AccIdle ==
    /\ a_output = <<>>
    /\ a_target = <<>>
    /\ a_topk = <<1>>
    /\ a_pred = <<>>
    /\ a_res = <<>>
    /\ a_pc = "idle"

\* any batch of 1..MaxBatch examples, any labels, either topk
AccCall ==
    /\ \E b \in 1..MaxBatch :
         /\ a_output \in [1..b -> ScoreRows]
         /\ a_target \in [1..b -> Classes]
    /\ a_topk \in TopKs
    /\ a_pred = <<>>
    /\ a_res = <<>>
    /\ a_pc = "call"

\* lines 46-50: maxk, batch_size, topk and the transpose
AccRank ==
    /\ a_pc = "call"
    /\ LET maxk == Max({a_topk[n] : n \in 1..Len(a_topk)})
           batch_size == Len(a_target)
       IN  \E tie \in TiePolicies :
             a_pred' = Transpose([i \in 1..batch_size |->
                                     TopKOf(a_output[i], tie, maxk, Classes)],
                                 batch_size, maxk)
    /\ a_pc' = "ranked"
    /\ UNCHANGED <<a_output, a_target, a_topk, a_res>>
    /\ UNCHANGED notAcc

\* lines 51-57: correct, then one precision per k
AccReturn ==
    /\ a_pc = "ranked"
    /\ LET correct == Correct(a_pred, a_target)
       IN  a_res' = [n \in 1..Len(a_topk) |->
                        PrecisionAt(correct, a_topk[n], Len(a_target))]
    /\ a_pc' = "returned"
    /\ UNCHANGED <<a_output, a_target, a_topk, a_pred>>
    /\ UNCHANGED notAcc

AccNext == AccRank \/ AccReturn

\* -------------------------------------------------- train_network_with_poison
\* --retrain-epochs default (line 247)
DefaultEpochs == 60

\* --lr-decay-epoch default [30, 45] (line 245): a list of ints
DecayFirst == 30
DecaySecond == 45

DefaultDecay == <<IntKey(DecayFirst), IntKey(DecaySecond)>>

\* --lr-decay-epoch given on the command line: nargs="+" with no type, so
\* argparse leaves every item the str it was typed as
FromCommandLine(epochs) == [i \in 1..Len(epochs) |-> StrKey(epochs[i])]

DecayChoices == {DefaultDecay,
                 FromCommandLine(<<DecayFirst, DecaySecond>>),
                 FromCommandLine(<<1>>)}

EpochChoices == {0, 1, 2, DecayFirst + 1, DecaySecond + 1, DefaultEpochs}

\* line 87: `epoch in args.lr_decay_epoch`, epoch an int
IsDecayEpoch(e, decay) == \E i \in 1..Len(decay) : decay[i] = IntKey(e)

\* line 89: param_group['lr'] *= 0.1, on a rational <<num, den>>
Decayed(x) == Rat(x[1], x[2] * 10)

TrainIdle ==
    /\ t_args = [retrain_epochs |-> 1, lr_decay_epoch |-> DefaultDecay,
                 retrain_lr |-> 1, batches |-> 1]
    /\ t_pc = "idle"
    /\ t_next = 0
    /\ epoch = Unbound
    /\ batch_no = 0
    /\ lr = Zero
    /\ scored_at = <<>>
    /\ validated = 0
    /\ output_keys = {}

\* the call, with any configuration
TrainCall ==
    /\ t_args \in [retrain_epochs : EpochChoices, lr_decay_epoch : DecayChoices,
                   retrain_lr : {1, 3}, batches : {1, 2}]
    /\ t_pc = "call"
    /\ t_next = 0
    /\ epoch = Unbound
    /\ batch_no = 0
    /\ lr = Zero
    /\ scored_at = <<>>
    /\ validated = 0
    /\ output_keys = {}

\* lines 64-80: the optimizer, the loaders, net.train()
Initialize ==
    /\ t_pc = "call"
    /\ lr' = Rat(t_args.retrain_lr, 1)
    /\ t_pc' = "epoch_head"
    /\ UNCHANGED <<t_args, t_next, epoch, batch_no, scored_at, validated, output_keys>>
    /\ UNCHANGED notTrain

\* lines 81-91: the next epoch begins; the learning rate decays if it is listed
EpochBegin ==
    /\ t_pc = "epoch_head"
    /\ t_next < t_args.retrain_epochs
    /\ epoch' = t_next
    /\ t_next' = t_next + 1
    /\ lr' = IF IsDecayEpoch(t_next, t_args.lr_decay_epoch) THEN Decayed(lr) ELSE lr
    /\ batch_no' = 0
    /\ t_pc' = "batches"
    /\ UNCHANGED <<t_args, scored_at, validated, output_keys>>
    /\ UNCHANGED notTrain

\* lines 92-115: one batch of the poisoned loader
TrainBatch ==
    /\ t_pc = "batches"
    /\ batch_no < t_args.batches
    /\ batch_no' = batch_no + 1
    /\ t_pc' = IF batch_no' < t_args.batches THEN "batches"
               ELSE IF epoch = t_args.retrain_epochs - 1 THEN "score"
               ELSE "epoch_head"
    /\ UNCHANGED <<t_args, t_next, epoch, lr, scored_at, validated, output_keys>>
    /\ UNCHANGED notTrain

\* lines 117-133: in the last epoch, score the target and the poisons
ScoreTargetAndPoisons ==
    /\ t_pc = "score"
    /\ scored_at' = Append(scored_at, epoch)
    /\ t_pc' = "epoch_head"
    /\ UNCHANGED <<t_args, t_next, epoch, batch_no, lr, validated, output_keys>>
    /\ UNCHANGED notTrain

\* the range is exhausted (line 81)
EpochsExhausted ==
    /\ t_pc = "epoch_head"
    /\ t_next >= t_args.retrain_epochs
    /\ t_pc' = "validate"
    /\ UNCHANGED <<t_args, t_next, epoch, batch_no, lr, scored_at, validated, output_keys>>
    /\ UNCHANGED notTrain

\* lines 136-151: the pass over the clean test set (CIFAR10, never empty). The
\* print of line 147 runs for the first batch (ite % 100 == 0) and formats
\* `epoch`, which is unbound when the epoch loop never ran: NameError.
Validate ==
    /\ t_pc = "validate"
    /\ IF epoch = Unbound
       THEN t_pc' = "raised" /\ UNCHANGED validated
       ELSE t_pc' = "return" /\ validated' = validated + 1
    /\ UNCHANGED <<t_args, t_next, epoch, batch_no, lr, scored_at, output_keys>>
    /\ UNCHANGED notTrain

\* lines 156-158: the returned record; target_pred, poison_pred_list and
\* target_scores are bound only by the scoring step
Return ==
    /\ t_pc = "return"
    /\ IF scored_at = <<>>
       THEN t_pc' = "raised" /\ UNCHANGED output_keys
       ELSE /\ t_pc' = "done"
            /\ output_keys' = {"clean acc", "prediction", "poisons predictions",
                               "scores", "malicious score", "camera"}
    /\ UNCHANGED <<t_args, t_next, epoch, batch_no, lr, scored_at, validated>>
    /\ UNCHANGED notTrain

TrainNext ==
    \/ Initialize
    \/ EpochBegin
    \/ TrainBatch
    \/ ScoreTargetAndPoisons
    \/ EpochsExhausted
    \/ Validate
    \/ Return

\* ----------------------------------------------------------------- Init
InitAgg ==
    /\ files = [t \in TargetIds |-> <<>>]
    /\ ckpt \in [TargetIds -> SUBSET IteSet]
    /\ args \in {[start |-> 0, end |-> -1, step |-> 1]}
                 \cup [start : {0}, end : {NumTargets}, step : {1, 2}]
    /\ pc = "idle"
    /\ cursor = 0
    /\ target_idx = 0
    /\ all_res = NoRecord
    /\ res = EmptyDict
    /\ no_save = TRUE
    /\ pos = 0
    /\ base_idx_list = Unbound
    /\ run = 0
    /\ files_before = files
    /\ prev_done = FALSE
    /\ changed = FALSE
    /\ same_inputs = TRUE
    /\ seed = 0
    /\ computed = {}
    /\ aborted = {}
    /\ visited = {}

\* the aggregator at rest, for the specifications of the other components
AggIdle ==
    /\ files = [t \in TargetIds |-> <<>>]
    /\ ckpt = [t \in TargetIds |-> {}]
    /\ args = [start |-> 0, end |-> -1, step |-> 1]
    /\ pc = "idle"
    /\ cursor = 0
    /\ target_idx = 0
    /\ all_res = NoRecord
    /\ res = EmptyDict
    /\ no_save = TRUE
    /\ pos = 0
    /\ base_idx_list = Unbound
    /\ run = 0
    /\ files_before = files
    /\ prev_done = FALSE
    /\ changed = FALSE
    /\ same_inputs = TRUE
    /\ seed = 0
    /\ computed = {}
    /\ aborted = {}
    /\ visited = {}

\* the end of the range after lines 291-292
RangeEnd == IF args.end = -1 THEN args.start + 1 ELSE args.end

\* A new process: python eval_poisons_scratch.py ... (up to line 293)
Invoke ==
    /\ UNCHANGED notAgg
    /\ pc \in {"idle", "done", "crashed"}
    /\ run < MaxRuns
    /\ run' = run + 1
    /\ prev_done' = (pc = "done")
    /\ same_inputs' = ~changed
    /\ changed' = FALSE
    /\ seed' \in Seeds(run')
    /\ files_before' = files
    /\ computed' = {}
    /\ aborted' = {}
    /\ visited' = {}
    /\ cursor' = args.start
    /\ target_idx' = 0
    /\ all_res' = NoRecord
    /\ res' = EmptyDict
    /\ no_save' = TRUE
    /\ pos' = 0
    /\ base_idx_list' = Unbound
    /\ pc' = "for_target"
    /\ UNCHANGED <<files, ckpt, args>>

\* lines 293-319: the next target index: load its record, start its sweep
BeginTarget ==
    /\ UNCHANGED notAgg
    /\ pc = "for_target"
    /\ cursor < RangeEnd
    /\ target_idx' = cursor
    /\ cursor' = cursor + args.step
    /\ all_res' = LoadRecord(files[cursor], cursor)
    /\ res' = EmptyDict
    /\ no_save' = TRUE
    /\ pos' = Len(ites)
    /\ visited' = visited \cup {cursor}
    /\ pc' = "sweep"
    /\ UNCHANGED <<files, ckpt, args, base_idx_list, run, files_before, prev_done,
                   changed, same_inputs, seed, computed, aborted>>

\* lines 320-350: one iteration of `for ite in ites[::-1]`
SweepIteration ==
    /\ UNCHANGED notAgg
    /\ pc = "sweep"
    /\ pos >= 1
    /\ LET ite == ites[pos]
           nextpc == IF pos = 1 THEN "persist" ELSE "sweep"
       IN  IF AlreadyPresent(all_res, target_idx, ite)
           THEN \* continue
                /\ pos' = pos - 1
                /\ pc' = nextpc
                /\ UNCHANGED <<res, no_save, base_idx_list, computed, aborted>>
           ELSE IF ite \notin ckpt[target_idx]
           THEN \* the checkpoint file is missing: break
                /\ no_save' = FALSE
                /\ pc' = AfterMissing
                /\ aborted' = aborted \cup {target_idx}
                /\ UNCHANGED <<res, pos, base_idx_list, computed>>
           ELSE \* the checkpoint is loaded; the log of the target has the lines
                \* get_stats asserts, or it has not
                \E log_ok \in BOOLEAN :
                  IF ~log_ok
                  THEN \* AssertionError in get_stats: the process dies
                       /\ base_idx_list' = ite
                       /\ pc' = "crashed"
                       /\ UNCHANGED <<res, no_save, pos, computed, aborted>>
                  ELSE \* res[ite] = get_stats(...), then one retraining per victim
                       /\ res' = DictSet(res, IntKey(ite), seed)
                       /\ base_idx_list' = ite
                       /\ computed' = computed \cup {<<target_idx, ite>>}
                       /\ pos' = pos - 1
                       /\ pc' = nextpc
                       /\ UNCHANGED <<no_save, aborted>>
    /\ UNCHANGED <<files, ckpt, args, cursor, target_idx, all_res, run, files_before,
                   prev_done, changed, same_inputs, seed, visited>>

\* lines 351-356: merge and overwrite the file, or nothing
Persist ==
    /\ UNCHANGED notAgg
    /\ pc = "persist"
    /\ IF ShouldPersist(no_save)
       THEN IF base_idx_list = Unbound
            THEN \* NameError at line 353, after line 352
                 /\ all_res' = [all_res EXCEPT
                                  !.targets = DictSet(all_res.targets,
                                                      IntKey(target_idx), res)]
                 /\ pc' = "crashed"
                 /\ UNCHANGED files
            ELSE /\ all_res' = MergeResults(all_res, target_idx, res, base_idx_list)
                 /\ files' = [files EXCEPT ![target_idx] = json_dump(all_res')]
                 /\ pc' = "for_target"
       ELSE /\ pc' = "for_target"
            /\ UNCHANGED <<files, all_res>>
    /\ UNCHANGED <<ckpt, args, cursor, target_idx, res, no_save, pos, base_idx_list,
                   run, files_before, prev_done, changed, same_inputs, seed, computed,
                   aborted, visited>>

\* the range is exhausted: the process exits with status 0
Finish ==
    /\ UNCHANGED notAgg
    /\ pc = "for_target"
    /\ cursor >= RangeEnd
    /\ pc' = "done"
    /\ UNCHANGED <<files, ckpt, args, cursor, target_idx, all_res, res, no_save, pos,
                   base_idx_list, run, files_before, prev_done, changed, same_inputs,
                   seed, computed, aborted, visited>>

\* Between two invocations the poison-crafting process (or the user) adds or
\* removes a checkpoint file.
CheckpointChange ==
    /\ UNCHANGED notAgg
    /\ pc \in {"done", "crashed"}
    /\ run < MaxRuns
    /\ ~changed
    /\ changed' = TRUE
    /\ \E t \in TargetIds, ite \in IteSet :
         ckpt' = [ckpt EXCEPT ![t] = IF ite \in ckpt[t] THEN ckpt[t] \ {ite}
                                     ELSE ckpt[t] \cup {ite}]
    /\ UNCHANGED <<files, args, pc, cursor, target_idx, all_res, res, no_save, pos,
                   base_idx_list, run, files_before, prev_done, same_inputs, seed,
                   computed, aborted, visited>>

ProcessStep == BeginTarget \/ SweepIteration \/ Persist \/ Finish

Next == Invoke \/ CheckpointChange \/ BeginTarget \/ SweepIteration \/ Persist \/ Finish

Init == InitAgg /\ MeterFresh /\ AccIdle /\ TrainIdle

Spec == Init /\ [][Next]_vars

\* a started process runs to its end; nobody is obliged to start one
\* the invocations alone, on a file system nobody else touches
LiveNext == Invoke \/ BeginTarget \/ SweepIteration \/ Persist \/ Finish

LiveSpec == Init /\ [][LiveNext]_vars /\ WF_vars(ProcessStep)

\* one AverageMeter under any sequence of calls
MeterInit == AggIdle /\ MeterFresh /\ AccIdle /\ TrainIdle

MeterSpec == MeterInit /\ [][MeterNext]_vars

\* one call of accuracy on any bounded batch
AccInit == AggIdle /\ MeterFresh /\ AccCall /\ TrainIdle

AccSpec == AccInit /\ [][AccNext]_vars

\* one call of train_network_with_poison under any bounded configuration; the
\* call runs until it returns or raises
TrainInit == AggIdle /\ MeterFresh /\ AccIdle /\ TrainCall

TrainSpec == TrainInit /\ [][TrainNext]_vars /\ WF_vars(TrainNext)

\* =================================================================== claims
\* ------------------------------------------------ the run-state aggregator
\* a dict as an unordered mapping
AsMap(d) == {<<d[i][1], d[i][2]>> : i \in 1..Len(d)}

NestedMap(d) == {<<d[i][1], AsMap(d[i][2])>> : i \in 1..Len(d)}

\* the iteration -> result mapping that reading file f back yields for target t
FileTargetRecord(f, t) ==
    IF f = <<>> THEN EmptyDict
    ELSE LET d == LoadOuter(f[1].targets)
         IN  IF DictHas(d, str(t)) THEN DictGet(d, str(t)) ELSE EmptyDict

\* file f holds a result of iteration ite under target t
RecordedIn(f, t, ite) == DictHas(FileTargetRecord(f, t), str(ite))

\* two results files are equal up to the order of their keys
SameFile(f, g) ==
    \/ f = <<>> /\ g = <<>>
    \/ /\ f # <<>>
       /\ g # <<>>
       /\ NestedMap(LoadOuter(f[1].targets)) = NestedMap(LoadOuter(g[1].targets))
       /\ f[1].poison_idx_list = g[1].poison_idx_list

\* the target indices of range(start, end, step)
RangeSet == {t \in TargetIds :
               /\ t >= args.start
               /\ t < RangeEnd
               /\ (t - args.start) % args.step = 0}

\* C1: resume skip. Whenever the inner loop stands at an iteration whose result
\* the results file of the target already holds (a file a previous invocation
\* persisted), the step taken skips it: nothing is loaded, nothing is retrained,
\* the loop moves on to the next iteration.
C1_ResumeSkip ==
    [][(pc = "sweep" /\ pos >= 1 /\ RecordedIn(files[target_idx], target_idx, ites[pos]))
         => /\ computed' = computed
            /\ res' = res
            /\ base_idx_list' = base_idx_list
            /\ pos' = pos - 1]_vars

\* C2: resume idempotence. When an invocation completes right after a completed
\* invocation with the same checkpoint files, it has retrained nothing and every
\* results file equals, up to key order, what the first invocation left.
C2_ResumeIdempotent ==
    (pc = "done" /\ run >= 2 /\ prev_done /\ same_inputs)
        => /\ computed = {}
           /\ \A t \in TargetIds : SameFile(files[t], files_before[t])

\* C3: no partial write. A target whose sweep met a missing checkpoint in this
\* invocation has, from then on, exactly the results file it had when the
\* invocation started, whatever the sweep had computed before the abort.
C3_AbortLeavesNoPartialWrite ==
    \A t \in aborted : files[t] = files_before[t]

\* C3 witness: the sweep of a target retrained a later-numbered iteration, then
\* met a missing checkpoint, the persist step has been passed, and the file an
\* earlier invocation wrote for the target is still there.
C3_Witness ==
    /\ pc = "for_target"
    /\ target_idx \in aborted
    /\ res # EmptyDict
    /\ files[target_idx] # <<>>

\* C4: a missing checkpoint is handled locally. Once the sweep of a target has
\* been abandoned for a missing checkpoint, the process goes on: it starts the
\* sweep of another target or completes normally. The step taken after the
\* abandonment only returns to the target loop; every sweep that starts is that
\* of the next index of range(start, end, step); the process completes only
\* with every index of the range visited; and it never dies at a target it
\* abandoned.
C4_MissingHandledLocally ==
    /\ (pc = "persist" /\ target_idx \in aborted) ~> (pc = "sweep" \/ pc = "done")
    /\ [][/\ (pc = "persist" /\ target_idx \in aborted)
              => (pc' = "for_target" /\ cursor' = target_idx + args.step)
          /\ (pc = "for_target" /\ pc' = "sweep")
              => (target_idx' = cursor /\ visited' = visited \cup {cursor})
          /\ pc' = "done" => visited' = RangeSet
          /\ pc' = "crashed" => target_idx' \notin aborted']_vars

\* C4 witness: an invocation completed normally after abandoning a target and
\* visiting the one after it.
C4_Witness ==
    /\ pc = "done"
    /\ \E t \in aborted : (t + args.step) \in visited

\* C5: the persisted record only grows. Whenever a results file is overwritten,
\* every iteration result the old file held under the target is in the new file
\* with the same value, and every result computed in this sweep is there too.
C5_RecordOnlyGrows ==
    [][\A t \in TargetIds :
         files'[t] # files[t]
           => LET old == FileTargetRecord(files[t], t)
                  new == FileTargetRecord(files'[t], t)
              IN  /\ \A k \in DictKeys(old) :
                        DictHas(new, k) /\ DictGet(new, k) = DictGet(old, k)
                  /\ \A k \in DictKeys(res) : DictHas(new, str(KeyText(k)))]_vars

\* ------------------------------------------------------------ AverageMeter
RECURSIVE SumProducts(_)
SumProducts(h) ==
    IF h = <<>> THEN 0 ELSE h[1][1] * h[1][2] + SumProducts(Tail(h))

RECURSIVE SumWeights(_)
SumWeights(h) == IF h = <<>> THEN 0 ELSE h[1][2] + SumWeights(Tail(h))

PositiveWeights(h) == \A i \in 1..Len(h) : h[i][2] > 0

\* C7: accumulator correctness. After a reset and a non-empty sequence of
\* update(value_i, weight_i) calls with positive weights, sum is the sum of
\* value_i * weight_i, count the sum of the weights, val the last value and avg
\* their quotient; right after a reset all four fields are zero.
C7_AccumulatorCorrect ==
    /\ (m_hist # <<>> /\ PositiveWeights(m_hist))
          => /\ m_sum = SumProducts(m_hist)
             /\ m_count = SumWeights(m_hist)
             /\ m_val = m_hist[Len(m_hist)][1]
             /\ m_avg[1] * SumWeights(m_hist) = SumProducts(m_hist) * m_avg[2]
             /\ m_status = "ok"
    /\ m_hist = <<>>
          => (m_val = 0 /\ m_sum = 0 /\ m_count = 0 /\ m_avg = Zero)

\* C7 witness: three updates with unequal positive weights and an average that
\* is not a whole number.
C7_Witness ==
    /\ Len(m_hist) = 3
    /\ PositiveWeights(m_hist)
    /\ m_hist[1][2] # m_hist[2][2]
    /\ m_avg[2] > 1

\* C8 (as stated): a read of the average after construction or reset() and
\* before any update() fails instead of yielding a value.
C8_ReadBeforeUpdateFails ==
    (m_read.kind # "none" /\ m_hist = <<>>) => m_read.kind = "raise"

\* C8 (amended): a read of the average after construction or reset() and before
\* any update() does not fail; it yields 0.
C8_ReadBeforeUpdateYieldsZero ==
    (m_read.kind # "none" /\ m_hist = <<>>) => m_read = [kind |-> "value", value |-> Zero]

\* C8 witness: the average has just been read with no update since the reset.
C8_Witness ==
    /\ m_read.kind = "value"
    /\ m_hist = <<>>

\* ----------------------------------------------------------------- accuracy
\* the k entries of column i of pred are the k highest-scored classes of example i
IsTopK(i, k) ==
    LET sel == {a_pred[j][i] : j \in 1..k}
    IN  /\ Cardinality(sel) = k
        /\ \A c \in sel, d \in Classes \ sel : a_output[i][c] >= a_output[i][d]
        /\ \A j \in 1..(k - 1) :
              a_output[i][a_pred[j][i]] >= a_output[i][a_pred[j + 1][i]]

\* the examples whose label is among their k highest-scored classes
Hits(k) == {i \in 1..Len(a_target) : \E j \in 1..k : a_pred[j][i] = a_target[i]}

\* C9: top-k monotonicity. For each k asked for, the value returned is
\* 100 * (examples whose label is among their k highest-scored classes) /
\* batch_size, and when both 1 and 5 are asked for, the value for 5 is at least
\* the value for 1.
C9_TopKMonotone ==
    a_pc = "returned" =>
        /\ \A n \in 1..Len(a_topk) :
             LET k == a_topk[n]
             IN  /\ \A i \in 1..Len(a_target) : IsTopK(i, k)
                 /\ a_res[n][1] * Len(a_target)
                       = Percent * Cardinality(Hits(k)) * a_res[n][2]
        /\ a_topk = <<1, 5>> =>
             a_res[2][1] * a_res[1][2] >= a_res[1][1] * a_res[2][2]

\* C9 witness: a batch of two on which top-1 is right for one example and top-5
\* for both.
C9_Witness ==
    /\ a_pc = "returned"
    /\ a_topk = <<1, 5>>
    /\ Len(a_target) = 2
    /\ a_res[1] = <<50, 1>>
    /\ a_res[2] = <<100, 1>>

\* ------------------------------------------------- train_network_with_poison
\* the learning rate the schedule [30, 45] prescribes for epoch e
ScheduledLr(e) ==
    IF e < DecayFirst THEN Rat(t_args.retrain_lr, 1)
    ELSE IF e < DecaySecond THEN Rat(t_args.retrain_lr, 10)
    ELSE Rat(t_args.retrain_lr, 100)

DecayEpochsOf(decay) == {decay[i][2] : i \in 1..Len(decay)}

\* C6: learning-rate schedule. With decay epochs 30 and 45, given as the default
\* or on the command line, the batches of epochs 0..29 are trained at L, those
\* of epochs 30..44 at 0.1 L and those from epoch 45 on at 0.01 L.
C6_LrSchedule ==
    (t_pc = "batches" /\ DecayEpochsOf(t_args.lr_decay_epoch) = {DecayFirst, DecaySecond})
        => lr = ScheduledLr(epoch)

\* C10: phase order. For any epoch budget the call does not raise, and when it
\* is done it has scored the target and poisons exactly once, in the last epoch,
\* validated exactly once, and returned the five result fields.
C10_PhaseOrder ==
    /\ t_pc # "raised"
    /\ t_pc = "done" =>
         /\ scored_at = <<t_args.retrain_epochs - 1>>
         /\ validated = 1
         /\ {"clean acc", "prediction", "poisons predictions", "scores",
             "malicious score"} \subseteq output_keys
    /\ t_pc \in {"validate", "return"} => Len(scored_at) = 1

====
